---- MODULE Spec2Model ----
(***************************************************************************)
(* Map colouring as a constraint satisfaction problem: backtracking search *)
(* with minimum-remaining-values ordering and forward checking             *)
(* (submission.py).  Variables (countries) are numbered 1..n, domain       *)
(* values (colours) 1..k.                                                   *)
(***************************************************************************)
EXTENDS Integers, Sequences, FiniteSets, TLC

\* ---------------------------------------------------------------- bounds
MaxVars == 4        \* largest number of variables of an instance
MaxColors == 3      \* largest number of domain values of an instance
MaxMissing == 2     \* an instance's conflict graph lacks at most this many pairs
MaxSize == 7        \* variables plus domain values of an instance, at most
MaxFairSize == 6    \* the same, for the instances of the termination check
CkVars == 2         \* largest number of variables handed to the validator
CkColors == 2       \* largest number of domain values handed to the validator
PureVars == 3       \* largest number of variables in the calls of mrv and possible_values
PureColors == 2     \* largest number of domain values in those calls

VARIABLES
    variables0,     \* the variable list supplied at construction (history)
    domains0,       \* the domain list supplied at construction (history)
    neighbors_dict0,\* the neighbour table supplied at construction (history)
    unassigned,     \* csp.unassigned; the very list object csp.variables names
    domains,        \* csp.domains; the list random.shuffle permutes in place
    neighbors_dict, \* csp.neighbors_dict: variable -> list of conflicting variables
    assignment,     \* the dict threaded through the recursion
    stack,          \* the active invocations of backtrack, innermost last
    pc,             \* "call", "loop", "ret", "done"
    result,         \* value being returned: "None", "Failure", "Assignment"
    returned,       \* the frame of the invocation that returned last (history)
    items,          \* check: result.items(), the dict under validation in iteration order
    ck_i,           \* check: number of items the loop of line 136 has passed
    raised,         \* check: the exception raised, "None" if none
    picked,         \* the values successive calls of mrv returned
    legal           \* <<country, list>>: the latest call of possible_values

vars == <<variables0, domains0, neighbors_dict0, unassigned, domains, neighbors_dict,
          assignment, stack, pc, result, returned, items, ck_i, raised,
          picked, legal>>

purevars == <<picked, legal>>

ckvars == <<items, ck_i, raised>>

solvervars == <<unassigned, assignment, stack, result, returned>>

\* ------------------------------------------------------------ list helpers
Range(s) == {s[j] : j \in 1..Len(s)}

\* list.remove(x): delete the first occurrence of x
RECURSIVE Remove(_, _)
Remove(s, x) ==
    IF s = <<>> THEN <<>>
    ELSE IF Head(s) = x THEN Tail(s)
    ELSE <<Head(s)>> \o Remove(Tail(s), x)

\* the outcomes of random.shuffle(s): every arrangement of the elements of s
Shuffles(s) ==
    {p \in [1..Len(s) -> Range(s)] :
        \A a, b \in 1..Len(s) : a # b => p[a] # p[b]}

EmptyDict == [x \in {} |-> 0]

\* d[key] = value
DictSet(d, key, value) ==
    [x \in (DOMAIN d) \cup {key} |-> IF x = key THEN value ELSE d[x]]

\* del d[key]
DictDel(d, key) == [x \in (DOMAIN d) \ {key} |-> d[x]]

\* ------------------------------------------------------- the problem model
\* variants of adjacent_c_constraint: one that looks at the first neighbour
\* only, one that leaves out the last neighbour, one that accepts anything
adjacent_c_constraint_FirstNeighbor(count1, color, nd, assign) ==
    \A j \in 1..Len(nd[count1]) :
        j = 1 => ~(nd[count1][j] \in DOMAIN assign /\ assign[nd[count1][j]] = color)

adjacent_c_constraint_SkipLast(count1, color, nd, assign) ==
    \A j \in 1..(Len(nd[count1]) - 1) :
        ~(nd[count1][j] \in DOMAIN assign /\ assign[nd[count1][j]] = color)

adjacent_c_constraint_AlwaysLegal(count1, color, nd, assign) == TRUE

\* True when no neighbour of count1 present in assign holds color
adjacent_c_constraint(count1, color, nd, assign) ==
    \A j \in 1..Len(nd[count1]) :
        ~(nd[count1][j] \in DOMAIN assign /\ assign[nd[count1][j]] = color)

\* CSP.possible_values: a copy of the domain list from which every value
\* that violates the constraint is removed
\* variant of PossibleFrom that walks the list it is removing from
RECURSIVE PossibleFrom_WalksCopy(_, _, _, _, _, _)
PossibleFrom_WalksCopy(possible, j, doms, nd, country, assign) ==
    IF j > Len(possible) THEN possible
    ELSE PossibleFrom_WalksCopy(
            IF ~adjacent_c_constraint(country, possible[j], nd, assign)
            THEN Remove(possible, possible[j]) ELSE possible,
            j + 1, doms, nd, country, assign)

RECURSIVE PossibleFrom(_, _, _, _, _, _)
PossibleFrom(possible, j, doms, nd, country, assign) ==
    IF j > Len(doms) THEN possible
    ELSE PossibleFrom(
            IF ~adjacent_c_constraint(country, doms[j], nd, assign)
            THEN Remove(possible, doms[j]) ELSE possible,
            j + 1, doms, nd, country, assign)

possible_values(doms, nd, country, assign) ==
    PossibleFrom(doms, 1, doms, nd, country, assign)

\* mrv: scan csp.unassigned, keep the first variable with strictly fewer
\* legal values than the best so far
\* variant of MrvScan that also replaces the best so far on a tie
RECURSIVE MrvScan_LastMinimum(_, _, _, _, _, _, _)
MrvScan_LastMinimum(country, minimum, j, unas, doms, nd, assign) ==
    IF j > Len(unas) THEN country
    ELSE LET n == Len(possible_values(doms, nd, unas[j], assign)) IN
         IF n <= minimum
         THEN MrvScan_LastMinimum(unas[j], n, j + 1, unas, doms, nd, assign)
         ELSE MrvScan_LastMinimum(country, minimum, j + 1, unas, doms, nd, assign)

RECURSIVE MrvScan(_, _, _, _, _, _, _)
MrvScan(country, minimum, j, unas, doms, nd, assign) ==
    IF j > Len(unas) THEN country
    ELSE LET n == Len(possible_values(doms, nd, unas[j], assign)) IN
         IF n < minimum
         THEN MrvScan(unas[j], n, j + 1, unas, doms, nd, assign)
         ELSE MrvScan(country, minimum, j + 1, unas, doms, nd, assign)

mrv(unas, doms, nd, assign) ==
    MrvScan(unas[1], Len(possible_values(doms, nd, unas[1], assign)),
            1, unas, doms, nd, assign)

\* variant of ForwardCheckFails that also rejects a neighbour with one legal value
ForwardCheckFails_AtMostOne(country, doms, nd, assign) ==
    \E j \in 1..Len(nd[country]) :
        Len(possible_values(doms, nd, nd[country][j], assign)) <= 1

\* variant of ForwardCheckFails that looks at the first neighbour only
ForwardCheckFails_FirstNeighbor(country, doms, nd, assign) ==
    \E j \in 1..Len(nd[country]) :
        j = 1 /\ Len(possible_values(doms, nd, nd[country][j], assign)) = 0

\* forward checking (lines 112-115): some neighbour of country has no legal value
ForwardCheckFails(country, doms, nd, assign) ==
    \E j \in 1..Len(nd[country]) :
        Len(possible_values(doms, nd, nd[country][j], assign)) = 0

\* lines 123-125: drop country's entry, if it has one, and re-append it
UndoAssignment(country, assign) ==
    IF country \in DOMAIN assign THEN DictDel(assign, country) ELSE assign

\* variants of UndoUnassigned: one that re-appends without looking at the
\* dict, one that puts the variable back at the front
UndoUnassigned_AlwaysAppend(country, assign, unas) == Append(unas, country)

UndoUnassigned_AtFront(country, assign, unas) ==
    IF country \in DOMAIN assign THEN <<country>> \o unas ELSE unas

UndoUnassigned(country, assign, unas) ==
    IF country \in DOMAIN assign THEN Append(unas, country) ELSE unas

\* ------------------------------------------------------------- instances
Pairs(n) == {e \in SUBSET (1..n) : Cardinality(e) = 2}

\* the ascending list of the elements of a set of variables
RECURSIVE SortedSeq(_)
SortedSeq(S) ==
    IF S = {} THEN <<>>
    ELSE LET m == CHOOSE x \in S : \A y \in S : x <= y
         IN <<m>> \o SortedSeq(S \ {m})

\* the neighbour table of the symmetric conflict graph with edge set E
NeighborTable(n, E) ==
    [x \in 1..n |-> SortedSeq({y \in 1..n : {x, y} \in E})]

\* a frame holds the invocation's variable and the position i of its loop;
\* the other fields are history: the dict and the list at entry, the values
\* the loop has read so far, the list as it was before the latest commit
NoFrame ==
    [country |-> 0, i |-> 0, entryAssignment |-> EmptyDict, entryUnassigned |-> <<>>,
     seen |-> <<>>, beforeCommit |-> <<>>]

\* CSP.__init__ followed by bts(csp): backtrack({}, csp) is about to run.
\* The instance has n variables, k domain values and the symmetric conflict
\* graph that lacks the pairs in missing.
InitWith(maxVars, maxColors, maxMissing, maxSize) ==
    \E n \in 1..maxVars, k \in 1..maxColors :
        \E missing \in SUBSET Pairs(n) :
            /\ n + k <= maxSize
            /\ Cardinality(missing) <= maxMissing
            /\ variables0 = [j \in 1..n |-> j]
            /\ domains0 = [j \in 1..k |-> j]
            /\ unassigned = [j \in 1..n |-> j]
            /\ domains = [j \in 1..k |-> j]
            /\ neighbors_dict0 = NeighborTable(n, Pairs(n) \ missing)
            /\ neighbors_dict = NeighborTable(n, Pairs(n) \ missing)
            /\ assignment = EmptyDict
            /\ stack = <<>>
            /\ pc = "call"
            /\ result = "None"
            /\ returned = NoFrame
            /\ items = <<>>
            /\ ck_i = 0
            /\ raised = "None"
            /\ picked = <<>>
            /\ legal = <<>>

Init == InitWith(MaxVars, MaxColors, MaxMissing, MaxSize)

Top == stack[Len(stack)]
Pop == SubSeq(stack, 1, Len(stack) - 1)

\* lines 92-93: every variable is assigned, the invocation returns the dict
BaseCase ==
    /\ pc = "call"
    /\ Len(unassigned) = 0
    /\ result' = "Assignment"
    /\ pc' = "ret"
    /\ UNCHANGED <<variables0, domains0, neighbors_dict0, unassigned, domains, neighbors_dict,
                   assignment, stack, returned>>
    /\ UNCHANGED ckvars
    /\ UNCHANGED purevars

\* lines 96-104: select the variable by mrv, shuffle the domain list in
\* place and start the loop over it
SelectAndShuffle ==
    /\ pc = "call"
    /\ Len(unassigned) # 0
    /\ \E sh_list \in Shuffles(domains) : domains' = sh_list
    /\ stack' = Append(stack,
                    [country |-> mrv(unassigned, domains, neighbors_dict, assignment),
                     i |-> 0,
                     entryAssignment |-> assignment,
                     entryUnassigned |-> unassigned,
                     seen |-> <<>>,
                     beforeCommit |-> <<>>])
    /\ pc' = "loop"
    /\ UNCHANGED <<variables0, domains0, neighbors_dict0, unassigned, neighbors_dict,
                   assignment, result, returned>>
    /\ UNCHANGED ckvars
    /\ UNCHANGED purevars

\* lines 104-118, consistent colour: commit, forward check, then either
\* return 'Failure' at once (line 115) or make the recursive call (line 118).
\* Line 107 reads the module-level neighbors_dict, the table the CSP was
\* built from; the loop reads position i of the list as it is now.
TryColor ==
    /\ pc = "loop"
    /\ Top.i < Len(domains)
    /\ LET country == Top.country
           color == domains[Top.i + 1]
           assigned == DictSet(assignment, country, color)
           frame == [Top EXCEPT !.seen = Append(@, color),
                                !.beforeCommit = unassigned]
       IN /\ adjacent_c_constraint(country, color, neighbors_dict, assignment)
          /\ assignment' = assigned
          /\ unassigned' = Remove(unassigned, country)
          /\ IF ForwardCheckFails(country, domains, neighbors_dict, assigned)
             THEN /\ result' = "Failure"
                  /\ returned' = frame
                  /\ stack' = Pop
                  /\ pc' = "ret"
             ELSE /\ pc' = "call"
                  /\ stack' = [stack EXCEPT ![Len(stack)] = frame]
                  /\ UNCHANGED <<result, returned>>
    /\ UNCHANGED <<variables0, domains0, neighbors_dict0, domains, neighbors_dict>>
    /\ UNCHANGED ckvars
    /\ UNCHANGED purevars

\* lines 104-107 and 123-125, inconsistent colour: nothing is committed and
\* the loop moves to the next position of the list
SkipColor ==
    /\ pc = "loop"
    /\ Top.i < Len(domains)
    /\ LET country == Top.country
           color == domains[Top.i + 1]
       IN /\ ~adjacent_c_constraint(country, color, neighbors_dict, assignment)
          /\ assignment' = UndoAssignment(country, assignment)
          /\ unassigned' = UndoUnassigned(country, assignment, unassigned)
          /\ stack' = [stack EXCEPT ![Len(stack)].i = @ + 1,
                                    ![Len(stack)].seen = Append(@, color)]
    /\ UNCHANGED <<variables0, domains0, neighbors_dict0, domains, neighbors_dict, pc, result,
                   returned>>
    /\ UNCHANGED ckvars
    /\ UNCHANGED purevars

\* line 127: the loop has run over every position of the list
Exhausted ==
    /\ pc = "loop"
    /\ Top.i = Len(domains)
    /\ result' = "Failure"
    /\ returned' = Top
    /\ stack' = Pop
    /\ pc' = "ret"
    /\ UNCHANGED <<variables0, domains0, neighbors_dict0, unassigned, domains, neighbors_dict,
                   assignment>>
    /\ UNCHANGED ckvars
    /\ UNCHANGED purevars

\* lines 118-120: the recursive call returned a solution, pass it on
PropagateResult ==
    /\ pc = "ret"
    /\ stack # <<>>
    /\ result # "Failure"
    /\ returned' = Top
    /\ stack' = Pop
    /\ UNCHANGED <<variables0, domains0, neighbors_dict0, unassigned, domains, neighbors_dict,
                   assignment, pc, result>>
    /\ UNCHANGED ckvars
    /\ UNCHANGED purevars

\* lines 118-125: the recursive call returned 'Failure', delete this
\* invocation's own entry and go on with the next position of the list
UndoAndContinue ==
    /\ pc = "ret"
    /\ stack # <<>>
    /\ result = "Failure"
    /\ assignment' = UndoAssignment(Top.country, assignment)
    /\ unassigned' = UndoUnassigned(Top.country, assignment, unassigned)
    /\ stack' = [stack EXCEPT ![Len(stack)].i = @ + 1]
    /\ pc' = "loop"
    /\ UNCHANGED <<variables0, domains0, neighbors_dict0, domains, neighbors_dict, result,
                   returned>>
    /\ UNCHANGED ckvars
    /\ UNCHANGED purevars

\* line 61: the outermost invocation returned, bts returns its value
BtsReturn ==
    /\ pc = "ret"
    /\ stack = <<>>
    /\ pc' = "done"
    /\ UNCHANGED <<variables0, domains0, neighbors_dict0, unassigned, domains, neighbors_dict,
                   assignment, stack, result, returned>>
    /\ UNCHANGED ckvars
    /\ UNCHANGED purevars

Next ==
    \/ BaseCase
    \/ SelectAndShuffle
    \/ TryColor
    \/ SkipColor
    \/ Exhausted
    \/ PropagateResult
    \/ UndoAndContinue
    \/ BtsReturn

Spec == Init /\ [][Next]_vars

\* the program is sequential and never waits: a step that can be taken is taken
FairInit == InitWith(MaxVars, MaxColors, MaxMissing, MaxFairSize)

FairSpec == FairInit /\ [][Next]_vars /\ WF_vars(Next)

\* the same search on the instances one size up: one more variable and one
\* more missing pair
LargeInit == InitWith(MaxVars + 1, MaxColors, MaxMissing + 1, MaxSize + 1)

SpecLarge == LargeInit /\ [][Next]_vars

\* csp.variables: __init__ binds variables and unassigned to one list object
variables == unassigned

\* ------------------------------------------------------------ the validator
\* check(result, countries, colors, neighbors): result is items, countries is
\* variables0, colors is domains and neighbors is neighbors_dict
Keys(its) == {its[j][1] : j \in 1..Len(its)}

\* result[key]
Lookup(its, key) == its[CHOOSE j \in 1..Len(its) : its[j][1] = key][2]

\* lines 132-134: the first country of the list that has no entry, 0 if none
RECURSIVE FirstMissing(_, _, _)
FirstMissing(cs, j, its) ==
    IF j > Len(cs) THEN 0
    ELSE IF cs[j] \notin Keys(its) THEN cs[j]
    ELSE FirstMissing(cs, j + 1, its)

\* lines 144-146: walk the neighbour list of key; result[country] of a
\* country without an entry is a KeyError
RECURSIVE NeighborScan(_, _, _, _)
NeighborScan(value, nbrs, j, its) ==
    IF j > Len(nbrs) THEN "None"
    ELSE IF nbrs[j] \notin Keys(its) THEN "KeyError"
    ELSE IF Lookup(its, nbrs[j]) = value THEN "ConstraintViolationError"
    ELSE NeighborScan(value, nbrs, j + 1, its)

\* variants of ItemOutcome: one without the colour test, one that tests the
\* colour before the country
ItemOutcome_NoColorCheck(key, value, cs, cols, nd, its) ==
    IF key \notin Range(cs) THEN "CountryNotFoundError"
    ELSE NeighborScan(value, nd[key], 1, its)

ItemOutcome_ColorFirst(key, value, cs, cols, nd, its) ==
    IF value \notin Range(cols) THEN "ColorNotFoundError"
    ELSE IF key \notin Range(cs) THEN "CountryNotFoundError"
    ELSE NeighborScan(value, nd[key], 1, its)

\* lines 138-146: one pass of the loop over result.items()
ItemOutcome(key, value, cs, cols, nd, its) ==
    IF key \notin Range(cs) THEN "CountryNotFoundError"
    ELSE IF value \notin Range(cols) THEN "ColorNotFoundError"
    ELSE NeighborScan(value, nd[key], 1, its)

\* the lists without repetition over S: the key orders a dict can have
DistinctSeqs(S) ==
    UNION {{q \in [1..m -> S] : \A a, b \in 1..m : a # b => q[a] # q[b]} :
              m \in 0..Cardinality(S)}

\* check is about to run on a dict whose keys are variables of the instance
\* or the unknown variable n + 1 and whose values are domain values or the
\* unknown value k + 1; the conflict table lists variables of the instance
CheckInit ==
    \E n \in 1..CkVars, k \in 1..CkColors :
        \E rel \in SUBSET {e \in (1..n) \X (1..n) : e[1] # e[2]} :
            \E keys \in DistinctSeqs(1..(n + 1)) :
                \E vals \in [1..Len(keys) -> 1..(k + 1)] :
                    /\ variables0 = [j \in 1..n |-> j]
                    /\ domains0 = [j \in 1..k |-> j]
                    /\ domains = [j \in 1..k |-> j]
                    /\ neighbors_dict0 =
                          [x \in 1..n |-> SortedSeq({y \in 1..n : <<x, y>> \in rel})]
                    /\ neighbors_dict =
                          [x \in 1..n |-> SortedSeq({y \in 1..n : <<x, y>> \in rel})]
                    /\ items = [j \in 1..Len(keys) |-> <<keys[j], vals[j]>>]
                    /\ ck_i = 0
                    /\ raised = "None"
                    /\ pc = "check_countries"
                    /\ unassigned = <<>>
                    /\ assignment = EmptyDict
                    /\ stack = <<>>
                    /\ result = "None"
                    /\ returned = NoFrame
                    /\ picked = <<>>
                    /\ legal = <<>>

\* lines 132-134: every country must have an entry
CheckCountries ==
    /\ pc = "check_countries"
    /\ IF FirstMissing(variables0, 1, items) # 0
       THEN raised' = "AssignmentError" /\ pc' = "check_done"
       ELSE raised' = raised /\ pc' = "check_items"
    /\ UNCHANGED <<variables0, domains0, neighbors_dict0, domains,
                   neighbors_dict, items, ck_i>>
    /\ UNCHANGED solvervars
    /\ UNCHANGED purevars

\* lines 136-146: the next item of the dict
CheckItem ==
    /\ pc = "check_items"
    /\ ck_i < Len(items)
    /\ LET outcome == ItemOutcome(items[ck_i + 1][1], items[ck_i + 1][2],
                                  variables0, domains, neighbors_dict, items)
       IN IF outcome # "None"
          THEN raised' = outcome /\ pc' = "check_done" /\ ck_i' = ck_i
          ELSE raised' = raised /\ pc' = pc /\ ck_i' = ck_i + 1
    /\ UNCHANGED <<variables0, domains0, neighbors_dict0, domains,
                   neighbors_dict, items>>
    /\ UNCHANGED solvervars
    /\ UNCHANGED purevars

\* the loop of line 136 is over: check returns without raising
CheckReturn ==
    /\ pc = "check_items"
    /\ ck_i = Len(items)
    /\ pc' = "check_done"
    /\ UNCHANGED <<variables0, domains0, neighbors_dict0, domains,
                   neighbors_dict, items, ck_i, raised>>
    /\ UNCHANGED solvervars
    /\ UNCHANGED purevars

CheckNext ==
    \/ CheckCountries
    \/ CheckItem
    \/ CheckReturn

SpecCheck == CheckInit /\ [][CheckNext]_vars

\* ------------------------------------------- mrv and possible_values alone
\* a CSP, a partial assignment (any values, consistent or not) and the list
\* of the variables without an entry, in any order: mrv and possible_values
\* are about to be called on them
PureInit ==
    \E n \in 1..PureVars, k \in 1..PureColors :
        \E edges \in SUBSET Pairs(n), assigned \in SUBSET (1..n) :
            \E a \in [assigned -> 1..k],
               order \in Shuffles(SortedSeq((1..n) \ assigned)),
               doms \in Shuffles([j \in 1..k |-> j]) :
                /\ variables0 = [j \in 1..n |-> j]
                /\ domains0 = doms
                /\ domains = doms
                /\ neighbors_dict0 = NeighborTable(n, edges)
                /\ neighbors_dict = NeighborTable(n, edges)
                /\ unassigned = order
                /\ assignment = a
                /\ returned = [NoFrame EXCEPT !.entryAssignment = a,
                                              !.entryUnassigned = order]
                /\ stack = <<>>
                /\ pc = "pure"
                /\ result = "None"
                /\ items = <<>>
                /\ ck_i = 0
                /\ raised = "None"
                /\ picked = <<>>
                /\ legal = <<>>

\* country = mrv(csp, assignment), line 96, called up to twice on one state
CallMrv ==
    /\ pc = "pure"
    /\ legal = <<>>
    /\ Len(unassigned) # 0
    /\ Len(picked) < 2
    /\ picked' = Append(picked, mrv(unassigned, domains, neighbors_dict, assignment))
    /\ UNCHANGED <<variables0, domains0, neighbors_dict0, domains, neighbors_dict, pc,
                   legal>>
    /\ UNCHANGED solvervars
    /\ UNCHANGED ckvars

\* csp.possible_values(country, assignment): the copy made at line 186 is
\* what the removals act on, csp.domains and the dict are only read
CallPossibleValues ==
    /\ pc = "pure"
    /\ picked = <<>> /\ legal = <<>>
    /\ \E country \in Range(variables0) :
          legal' = <<country,
                     possible_values(domains, neighbors_dict, country, assignment)>>
    /\ UNCHANGED <<variables0, domains0, neighbors_dict0, domains, neighbors_dict, pc,
                   picked>>
    /\ UNCHANGED solvervars
    /\ UNCHANGED ckvars

PureNext ==
    \/ CallMrv
    \/ CallPossibleValues

SpecPure == PureInit /\ [][PureNext]_vars

\* --------------------------------------------------------------- vocabulary
Variables == Range(variables0)
Domain == Range(domains0)
Conflict(a, b) == b \in Range(neighbors_dict0[a])

NoConflict(f) ==
    \A a, b \in DOMAIN f : Conflict(a, b) => f[a] # f[b]

IsSolution(f) ==
    /\ Variables \subseteq DOMAIN f
    /\ \A a \in DOMAIN f : f[a] \in Domain
    /\ NoConflict(f)

Satisfiable == \E f \in [Variables -> Domain] : NoConflict(f)

Started == pc = "call" /\ stack = <<>>

\* some invocation returned 'Failure' from the forward check and its entry
\* is still in the dict although the invocation is no longer active
Leaked == Cardinality(DOMAIN assignment) > Len(stack)

\* the instance of three variables A, B, C with conflicts A-B and B-C and a
\* domain of two values
IsPathInstance ==
    /\ Len(variables0) = 3
    /\ Len(domains0) = 2
    /\ \E a, b, c \in Variables :
          /\ a # b /\ b # c /\ a # c
          /\ Conflict(a, b) /\ Conflict(b, c) /\ ~Conflict(a, c)

\* ------------------------------------------------------------------ claims

\* C1 (soundness): when bts returns an assignment, every variable of the
\* instance is a key of it, every value is in the Domain and no two
\* conflicting variables hold the same value.
C1_Soundness ==
    (pc = "done" /\ result = "Assignment") => IsSolution(assignment)

C1_Witness ==
    /\ pc = "done" /\ result = "Assignment"
    /\ Len(variables0) >= 3
    /\ \E a, b, c \in Variables : a # c /\ Conflict(a, b) /\ Conflict(b, c)

\* C2 (completeness): on an instance that has a valid colouring bts returns
\* a valid assignment, never 'Failure'.
C2_Completeness ==
    (pc = "done" /\ Satisfiable) =>
        (result = "Assignment" /\ IsSolution(assignment))

\* C3 (failure correctness): on an instance without a valid colouring bts
\* terminates and what it returns is 'Failure', never an assignment.
C3_FailureCorrectness ==
    /\ (Started /\ ~Satisfiable) ~> (pc = "done" /\ result = "Failure")
    /\ [](pc = "done" /\ result = "Assignment" => Satisfiable)

C3_Witness ==
    /\ pc = "done" /\ result = "Failure"
    /\ Len(variables0) = 3 /\ Len(domains0) = 2
    /\ \A a, b \in Variables : a # b => Conflict(a, b)

\* C4: when bts returns 'Failure' the Assignment is empty and the Unassigned
\* collection contains every variable of the instance again.
C4_FailureRestoresState ==
    (pc = "done" /\ result = "Failure") =>
        (assignment = EmptyDict /\ Range(unassigned) = Variables)

\* C5: while bts runs and after it returns, csp.variables, the contents of
\* csp.domains and the conflict relation are those supplied at construction.
C5_InstanceImmutable ==
    /\ variables = variables0
    /\ Range(domains) = Range(domains0)
    /\ neighbors_dict = neighbors_dict0

\* C8: on the instance A-B, B-C with two domain values bts returns a
\* complete assignment with A # B and B # C, never 'Failure'.
C8_PathScenario ==
    (IsPathInstance /\ pc = "done") =>
        /\ result = "Assignment"
        /\ DOMAIN assignment = Variables
        /\ \A a, b \in Variables : Conflict(a, b) => assignment[a] # assignment[b]

C8_Witness ==
    /\ IsPathInstance /\ pc = "done" /\ result = "Assignment"
    /\ \E a, c \in Variables : a # c /\ assignment[a] = assignment[c]

\* C9 (strictly nested mutation): when an invocation of backtrack returns
\* 'Failure', the Assignment and the set of Unassigned variables are what
\* they were when that invocation was entered.
C9_StrictlyNested ==
    (pc \in {"ret", "done"} /\ result = "Failure") =>
        /\ assignment = returned.entryAssignment
        /\ Range(unassigned) = Range(returned.entryUnassigned)

\* C10 (assignment consistency): in every state of the search no two
\* conflicting variables are both in the Assignment with the same value.
C10_AssignmentConsistent == NoConflict(assignment)

C10_Witness ==
    /\ pc = "loop" /\ result = "Failure" /\ Leaked
    /\ \E a, b \in DOMAIN assignment : Conflict(a, b)

\* ---- validator vocabulary
ItemKey(j) == items[j][1]
ItemValue(j) == items[j][2]

Incomplete == \E v \in Variables : v \notin Keys(items)
UnknownKey(j) == ItemKey(j) \notin Variables
UnknownValue(j) == ItemValue(j) \notin Range(domains)

\* entry j holds the value of one of its conflicting neighbours
SharesValue(j) ==
    /\ ~UnknownKey(j)
    /\ \E h \in 1..Len(items) :
          /\ ItemKey(h) \in Range(neighbors_dict[ItemKey(j)])
          /\ ItemValue(h) = ItemValue(j)

ValidItems ==
    /\ ~Incomplete
    /\ \A j \in 1..Len(items) : ~UnknownKey(j) /\ ~UnknownValue(j) /\ ~SharesValue(j)

NamedConditions ==
    {"AssignmentError", "CountryNotFoundError", "ColorNotFoundError",
     "ConstraintViolationError"}

\* C6: check completes without raising exactly when the assignment is valid,
\* and otherwise raises one of the four named conditions.
C6_ValidatorIff ==
    pc = "check_done" =>
        /\ (raised = "None") <=> ValidItems
        /\ raised \in NamedConditions \cup {"None"}

C6_Witness ==
    /\ pc = "check_done" /\ raised = "None"
    /\ Len(items) >= 2
    /\ \E a, b \in Variables : Conflict(a, b)

\* C7 as claimed: the condition reported is that of the earliest failing check
\* in the order completeness, unknown variable or value anywhere in the
\* assignment, constraint violation.
C7_ChecksInOrder ==
    pc = "check_done" =>
        IF Incomplete THEN raised = "AssignmentError"
        ELSE IF \E j \in 1..Len(items) : UnknownKey(j) \/ UnknownValue(j)
             THEN raised \in {"CountryNotFoundError", "ColorNotFoundError"}
        ELSE IF \E j \in 1..Len(items) : SharesValue(j)
             THEN raised = "ConstraintViolationError"
        ELSE raised = "None"

\* C7 amended: an incomplete assignment is reported first; otherwise the
\* condition reported is that of the first entry, in the iteration order of
\* the assignment, that fails any check, and within that entry an unknown
\* variable comes before an unknown value, which comes before a constraint
\* violation.
C7_ChecksPerEntry ==
    pc = "check_done" =>
        IF Incomplete THEN raised = "AssignmentError"
        ELSE LET Fails(j) == UnknownKey(j) \/ UnknownValue(j) \/ SharesValue(j)
                 bad == {j \in 1..Len(items) : Fails(j)}
             IN IF bad = {} THEN raised = "None"
                ELSE LET f == CHOOSE j \in bad : \A h \in bad : j <= h
                     IN raised = IF UnknownKey(f) THEN "CountryNotFoundError"
                                 ELSE IF UnknownValue(f) THEN "ColorNotFoundError"
                                 ELSE "ConstraintViolationError"

\* a constraint violation is reported although a later entry has an unknown
\* key or value
C7_Witness ==
    /\ pc = "check_done" /\ raised = "ConstraintViolationError"
    /\ \E j \in 1..Len(items) : j > ck_i + 1 /\ (UnknownKey(j) \/ UnknownValue(j))

\* C11 (partition): at the entry of each invocation and at each return to a
\* caller, Unassigned and the keys of the Assignment are disjoint, together
\* they are the variables supplied at construction, and no variable occurs
\* twice in Unassigned.
C11_Partition ==
    pc \in {"call", "ret"} =>
        /\ Range(unassigned) \cap DOMAIN assignment = {}
        /\ Range(unassigned) \cup DOMAIN assignment = Variables
        /\ \A a, b \in 1..Len(unassigned) : a # b => unassigned[a] # unassigned[b]

C11_Witness ==
    /\ pc = "ret" /\ result = "Failure" /\ Leaked
    /\ Len(unassigned) >= 2
    /\ unassigned[Len(unassigned)] < unassigned[1]

\* C12 (value enumeration): the values the loop of an invocation reads are
\* pairwise different, and an invocation that returns 'Failure' from line 127
\* has read every domain value.
C12_OnePermutation ==
    /\ \A d \in 1..Len(stack) :
          \A a, b \in 1..Len(stack[d].seen) :
              a # b => stack[d].seen[a] # stack[d].seen[b]
    /\ (pc = "ret" /\ result = "Failure" /\ returned.i = Len(domains)) =>
          Range(returned.seen) = Domain

\* a complete valid colouring that agrees with the partial assignment a
Extendable(a) ==
    \E f \in [Variables -> Domain] :
        /\ NoConflict(f)
        /\ \A x \in DOMAIN a : f[x] = a[x]

\* C13 (meaning of failure): when an invocation returns 'Failure', no complete
\* valid assignment extends the partial Assignment it was entered with.
C13_FailureMeansNoSolution ==
    (pc = "ret" /\ result = "Failure") => ~Extendable(returned.entryAssignment)

\* every domain value is held by an assigned neighbour of y
NoLegalValue(y, a) ==
    \A v \in Domain :
        \E z \in Range(neighbors_dict0[y]) : z \in DOMAIN a /\ a[z] = v

\* C14 (forward-checking early termination): when the commit of a value to a
\* variable x leaves a neighbour of x without a legal value, the same step
\* returns 'Failure' from the invocation and no recursive invocation starts.
C14_ForwardCheckStops ==
    [][(pc = "loop" /\ DOMAIN assignment' # DOMAIN assignment) =>
          LET x == CHOOSE c \in DOMAIN assignment' : c \notin DOMAIN assignment
          IN (\E y \in Range(neighbors_dict0[x]) : NoLegalValue(y, assignment')) =>
                /\ pc' = "ret"
                /\ result' = "Failure"
                /\ Len(stack') = Len(stack) - 1]_vars

\* an invocation has just returned from inside its loop, right after a commit
C14_Witness ==
    /\ pc = "ret" /\ result = "Failure"
    /\ Len(returned.seen) = returned.i + 1
    /\ returned.country \in DOMAIN assignment
    /\ \E y \in Range(neighbors_dict0[returned.country]) : NoLegalValue(y, assignment)

\* the number of domain values no assigned neighbour of x holds
LegalCount(x) ==
    Cardinality({v \in Domain :
        \A z \in Range(neighbors_dict0[x]) :
            ~(z \in DOMAIN assignment /\ assignment[z] = v)})

\* C15 (MRV selection): mrv returns the first variable of Unassigned whose
\* number of legal values is the minimum over Unassigned, and a repeated call
\* returns the same variable.
C15_FirstMinimum ==
    \A c \in 1..Len(picked) :
        \E p \in 1..Len(unassigned) :
            /\ picked[c] = unassigned[p]
            /\ \A q \in 1..Len(unassigned) :
                  LegalCount(unassigned[p]) <= LegalCount(unassigned[q])
            /\ \A q \in 1..(p - 1) :
                  LegalCount(unassigned[q]) > LegalCount(unassigned[p])

\* mrv was called twice on a list where a later variable reaches the
\* minimum too and the variables do not all have the same count
C15_Witness ==
    /\ Len(picked) = 2
    /\ \E q \in 1..Len(unassigned) :
          /\ unassigned[q] # picked[1]
          /\ LegalCount(unassigned[q]) = LegalCount(picked[1])
    /\ \E x \in Variables : LegalCount(x) # LegalCount(picked[1])

\* C16 (legal values): possible_values returns exactly the domain values that
\* no conflicting neighbour present in the assignment holds, each once and in
\* the order of the domain list, and leaves the domain list and the
\* assignment as they were; a variable without conflicts gets the full domain.
C16_LegalValues ==
    legal # <<>> =>
        LET country == legal[1]
            possible == legal[2]
            Holds(v) == \E z \in Range(neighbors_dict0[country]) :
                            z \in DOMAIN assignment /\ assignment[z] = v
        IN /\ Range(possible) = {v \in Domain : ~Holds(v)}
           /\ \A a, b \in 1..Len(possible) : a # b => possible[a] # possible[b]
           /\ \A a, b \in 1..Len(domains) :
                 (a < b /\ ~Holds(domains[a]) /\ ~Holds(domains[b])) =>
                     \E g, h \in 1..Len(possible) :
                         g < h /\ possible[g] = domains[a] /\ possible[h] = domains[b]
           /\ domains = domains0
           /\ assignment = returned.entryAssignment
           /\ (neighbors_dict0[country] = <<>> => possible = domains0)

C16_Witness ==
    /\ legal # <<>>
    /\ Len(legal[2]) < Len(domains)
    /\ \E z \in DOMAIN assignment : ~Conflict(legal[1], z)

\* C17 as claimed: after a commit of a variable followed by its undo the
\* Unassigned sequence is, order included, what it was before the commit.
C17_UndoRestoresOrder ==
    [][(pc = "ret" /\ pc' = "loop") => unassigned' = Top.beforeCommit]_vars

\* C17 amended: after a commit of a variable followed by its undo the variable
\* is the last element of Unassigned; the other elements are variables of the
\* sequence before the commit, none twice, and a variable of that sequence
\* that is missing is still in the Assignment.
C17_UndoMovesToEnd ==
    [][(pc = "ret" /\ pc' = "loop") =>
          LET before == Top.beforeCommit
              after == unassigned'
          IN /\ Len(after) > 0
             /\ after[Len(after)] = Top.country
             /\ \A a, b \in 1..Len(after) : a # b => after[a] # after[b]
             /\ Range(after) \subseteq Range(before)
             /\ \A x \in Range(before) :
                   x \notin Range(after) => x \in DOMAIN assignment']_vars

\* the variable undone last was the first of the sequence before its commit
\* and is now the last of several
C17_Witness ==
    /\ pc = "loop" /\ result = "Failure" /\ stack # <<>>
    /\ Top.beforeCommit # <<>>
    /\ Top.beforeCommit[1] = Top.country
    /\ Top.country \notin DOMAIN assignment
    /\ Len(unassigned) >= 2
    /\ unassigned[Len(unassigned)] = Top.country

====
